---------------------------- MODULE Spec2Model ----------------------------
(***************************************************************************)
(* A model of pyquake/blendmdl.py: the conversion of an alias model (MDL)  *)
(* into host (Blender) objects, meshes, shape keys, keyframes and          *)
(* materials.                                                              *)
(*                                                                         *)
(* The host tables bpy.data.objects, bpy.data.meshes, bpy.data.materials,  *)
(* bpy.data.images and the scene collection are the state; add_model is    *)
(* followed statement group by statement group with a program counter.     *)
(*                                                                         *)
(* Conventions.  Python indices are kept as the 0-based integers the code  *)
(* uses; At0 reads a TLA+ sequence with such an index.  Host data blocks   *)
(* are referred to by their 1-based position in their table, 0 is None.    *)
(* A time is an integer number of ticks, TimeDen ticks to the time unit.   *)
(* Vertex coordinates and texture coordinates are symbolic values.         *)
(***************************************************************************)
EXTENDS Integers, Sequences, FiniteSets, TLC

VARIABLES
    objects,    \* bpy.data.objects: sequence of object records
    meshes,     \* bpy.data.meshes: sequence of mesh records
    materials,  \* bpy.data.materials: sequence of material records
    images,     \* bpy.data.images: sequence of image names
    scene,      \* bpy.context.scene.collection.objects: linked object ids
    pc,         \* position of the running add_model call
    args,       \* arguments of the running (or last) add_model call
    loc,        \* local variables of the running (or last) add_model call
    result,     \* outcome of the last add_model call
    ncalls,     \* number of add_model calls started
    trace,      \* observation log: material steps and schedules handed to _animate
    sp          \* input and output of a _simplify_pydata call

vars == <<objects, meshes, materials, images, scene, pc, args, loc, result,
          ncalls, trace, sp>>

hostVars == <<objects, meshes, materials, images, scene>>
callVars == <<pc, args, loc, result, ncalls, trace>>

-----------------------------------------------------------------------------
(* Bounds of the explored inputs. *)

MaxCalls == 2
MaxFrames == 2
MaxSubFrames == 2
MaxTriSets == 2
MaxSched == 2
MaxAnimSched == 3
MaxTime == 3
MaxFinalTime == 4
MaxLoopSubFrames == 3
MaxVerts == 3
MaxTris == 2
TimeDen == 2

(* Default of the fps parameter of add_model and _animate. *)
DefaultFps == 30

-----------------------------------------------------------------------------
(* Python helpers. *)

Range(s) == {s[i] : i \in DOMAIN s}

\* seq[i] for a 0-based in-range index
At0(s, i) == s[i + 1]

\* list.index(x): the 0-based position of the first occurrence
IndexOf(s, x) == (CHOOSE i \in DOMAIN s : s[i] = x /\ \A j \in 1..(i - 1) : s[j] # x) - 1

\* Python's list indexing accepts -len..len-1, a negative index counts from the end
PyIndexOk(s, i) == -Len(s) <= i /\ i < Len(s)
PyIndex(s, i) == IF i < 0 THEN s[Len(s) + i + 1] ELSE s[i + 1]

\* int(np.ceil(a / b)) for b > 0
CeilDiv(a, b) == -((-a) \div b)

\* int(round(n / d)) for d > 0: Python 3 rounds a half to the even neighbour
RoundHalfEven(n, d) ==
    LET q == n \div d
        r == n % d
    IN  IF 2 * r < d THEN q
        ELSE IF 2 * r > d THEN q + 1
        ELSE IF q % 2 = 0 THEN q ELSE q + 1

\* int(round(fps * time)), time given in ticks
HostFrame(fps, time) == RoundHalfEven(fps * time, TimeDen)

-----------------------------------------------------------------------------
(* _simplify_pydata *)

\* a variant that appends every corner, as if line 94 were missing
RECURSIVE SimplifyTriMapNoCheck(_, _, _)
SimplifyTriMapNoCheck(vert_map, tri, j) ==
    IF j > Len(tri) THEN vert_map
    ELSE SimplifyTriMapNoCheck(Append(vert_map, tri[j]), tri, j + 1)

\* one pass of the inner loop: vert_map after the corners of tri are seen
RECURSIVE SimplifyTriMap(_, _, _)
SimplifyTriMap(vert_map, tri, j) ==
    IF j > Len(tri) THEN vert_map
    ELSE SimplifyTriMap(IF tri[j] \in Range(vert_map) THEN vert_map
                        ELSE Append(vert_map, tri[j]),
                        tri, j + 1)

\* new_tri: each corner is vert_map.index(vert_idx) at the time it is appended;
\* an index never changes once the vertex is in vert_map
SimplifyNewTri(vert_map, tri) ==
    LET m == SimplifyTriMap(vert_map, tri, 1)
    IN  [j \in DOMAIN tri |-> IndexOf(m, tri[j])]

RECURSIVE SimplifyLoop(_, _, _, _)
SimplifyLoop(vert_map, new_tris, tris, i) ==
    IF i > Len(tris) THEN [vert_map |-> vert_map, new_tris |-> new_tris]
    ELSE SimplifyLoop(SimplifyTriMap(vert_map, tris[i], 1),
                      Append(new_tris, SimplifyNewTri(vert_map, tris[i])),
                      tris, i + 1)

_simplify_pydata(verts, tris) ==
    LET r == SimplifyLoop(<<>>, <<>>, tris, 1)
    IN  [verts    |-> [k \in DOMAIN r.vert_map |-> At0(verts, r.vert_map[k])],
         edges    |-> <<>>,
         faces    |-> r.new_tris,
         vert_map |-> r.vert_map]

-----------------------------------------------------------------------------
(* Shape keys and keyframes of one object. *)

\* A shape-key block: its name, its vertex data, its value attribute and the
\* keyframe points of its value curve, a function host frame -> point.
NewBlock(name, data) == [name |-> name, data |-> data, value |-> 0, kf |-> <<>>]

\* block.value = v; block.keyframe_insert('value', frame=f): a keyframe at a
\* host frame that already has one replaces it
KeyframeInsert(keys, b, v, f) ==
    [keys EXCEPT ![b].value = v,
                 ![b].kf = [g \in (DOMAIN @) \cup {f} |->
                               IF g = f THEN [value |-> v, interpolation |-> "DEFAULT"]
                               ELSE @[g]]]

\* _create_block: a block named after the frame whose k-th vertex is the
\* frame's vertex vert_map[k]
_create_block(keys, simple_frame, vert_map) ==
    Append(keys, NewBlock(simple_frame,
                          [k \in DOMAIN vert_map |-> <<simple_frame, vert_map[k]>>]))

\* a variant without lines 60-61: the previous block is never faded out
AnimateEntryNoFadeOut(st, blocks, entry, fps) ==
    LET time == entry[1]
        frame_num == entry[2]
    IN  IF frame_num \notin DOMAIN blocks THEN [st EXCEPT !.exc = "KeyError"]
        ELSE
        LET block == blocks[frame_num]
            k1 == KeyframeInsert(st.keys, block, 1, HostFrame(fps, time))
            k2 == IF st.prev_block # 0
                  THEN KeyframeInsert(k1, block, 0, HostFrame(fps, st.prev_time))
                  ELSE k1
        IN  [keys |-> k2, prev_block |-> block, prev_time |-> time, exc |-> ""]

\* the body of _animate's loop for one (time, frame_num) entry
AnimateEntry(st, blocks, entry, fps) ==
    LET time == entry[1]
        frame_num == entry[2]
    IN  IF frame_num \notin DOMAIN blocks THEN [st EXCEPT !.exc = "KeyError"]
        ELSE
        LET block == blocks[frame_num]
            k1 == KeyframeInsert(st.keys, block, 1, HostFrame(fps, time))
            k2 == IF st.prev_block # 0
                  THEN KeyframeInsert(
                           KeyframeInsert(k1, block, 0, HostFrame(fps, st.prev_time)),
                           st.prev_block, 0, HostFrame(fps, time))
                  ELSE k1
        IN  [keys |-> k2, prev_block |-> block, prev_time |-> time, exc |-> ""]

RECURSIVE AnimateLoop(_, _, _, _, _)
AnimateLoop(st, blocks, frames, fps, i) ==
    IF i > Len(frames) \/ st.exc # "" THEN st
    ELSE AnimateLoop(AnimateEntry(st, blocks, frames[i], fps), blocks, frames, fps, i + 1)

\* every keyframe point of every curve of the object's action becomes LINEAR
SetLinear(keys) ==
    [b \in DOMAIN keys |->
        [keys[b] EXCEPT !.kf = [g \in DOMAIN @ |-> [@[g] EXCEPT !.interpolation = "LINEAR"]]]]

\* _animate: the object's shape keys afterwards, and the exception if one is
\* raised (prev_block = 0 stands for prev_block and prev_time being None)
_animate(keys, blocks, frames, fps) ==
    LET st == AnimateLoop([keys |-> keys, prev_block |-> 0, prev_time |-> 0, exc |-> ""],
                          blocks, frames, fps, 1)
    IN  [keys |-> IF st.exc = "" /\ st.prev_block # 0 THEN SetLinear(st.keys) ELSE st.keys,
         exc  |-> st.exc]

-----------------------------------------------------------------------------
(* The looping schedule of a static model, lines 168-176. *)

\* times[k, i] for loop k and sub-frame i (both 0-based)
LoopTime(group_times, k, i) ==
    (IF i = 0 THEN 0 ELSE At0(group_times, i - 1))
    + k * group_times[Len(group_times)]

\* zip(np.ravel(times), itertools.cycle(range(n)))
LoopFrames(group_times, num_loops) ==
    LET n == Len(group_times)
    IN  [j \in 1..(num_loops * n) |->
            <<LoopTime(group_times, (j - 1) \div n, (j - 1) % n), (j - 1) % n>>]

-----------------------------------------------------------------------------
(* add_model, lines 126-210. *)

NoArgs == [am |-> [frames |-> <<>>, num_verts |-> 0, tris |-> <<>>,
                   disjoint_tri_sets |-> <<>>, skins |-> <<>>],
           mdl_name |-> "", obj_name |-> "", frames |-> <<>>, skin_idx |-> 0,
           final_time |-> 0, sample_as_light |-> FALSE, static |-> FALSE,
           fps |-> DefaultFps]

\* the locals at line 133; blocks is not bound before line 152
NoLoc == [tri_set_idx |-> 0, obj |-> 0, subobj |-> 0, mesh |-> 0, vert_map |-> <<>>,
          blocks_bound |-> FALSE, blocks |-> <<>>, sample_as_light_mats |-> {}]

NoTrace == [mats |-> <<>>, animate |-> <<>>, steps |-> <<>>]

NewObject(name, data) == [name |-> name, data |-> data, parent |-> 0, keys |-> <<>>]

\* a variant that leaves the mesh object without a parent
NewSubobjNoParent(name, mesh, obj) == NewObject(name, mesh)

\* lines 147-148: the mesh object of a triangle group, parented to the root
NewSubobj(name, mesh, obj) == [NewObject(name, mesh) EXCEPT !.parent = obj]
NewMesh(name) == [name |-> name, verts |-> <<>>, faces |-> <<>>, materials |-> <<>>,
                  uv_layers |-> 0, uvs |-> <<>>]

Raise(exc) ==
    /\ pc' = "done"
    /\ result' = [kind |-> "raised", exc |-> exc]

Step(name) == [trace EXCEPT !.steps = Append(@, <<name, loc.tri_set_idx>>)]

\* lines 126-135: the root object is created and linked
Call(a) ==
    /\ pc \in {"idle", "done"}
    /\ ncalls < MaxCalls
    /\ ncalls' = ncalls + 1
    /\ args' = a
    /\ objects' = Append(objects, NewObject(a.obj_name, 0))
    /\ scene' = Append(scene, Len(objects) + 1)
    /\ loc' = [NoLoc EXCEPT !.obj = Len(objects) + 1]
    /\ result' = [kind |-> "none", exc |-> ""]
    /\ trace' = [trace EXCEPT !.animate = <<>>, !.steps = <<>>]
    /\ pc' = "loop"
    /\ UNCHANGED <<meshes, materials, images, sp>>

\* f"{obj_name}_triset{tri_set_idx}"
SubobjName(obj_name, tri_set_idx) == obj_name \o "_triset" \o ToString(tri_set_idx)

\* lines 140-143: the vertices of the first pose, symbolic per frame and vertex
InitialVerts(am) ==
    LET f == am.frames[1]
        simple == IF f.frame_type = "SINGLE" THEN f.name ELSE f.frames[1]
    IN  [v \in 1..am.num_verts |-> <<simple, v - 1>>]

\* lines 136-149: the mesh and the mesh object of the current triangle group
BuildMesh ==
    /\ pc = "loop"
    /\ loc.tri_set_idx < Len(args.am.disjoint_tri_sets)
    /\ LET subobj_name == SubobjName(args.obj_name, loc.tri_set_idx)
           tri_set == At0(args.am.disjoint_tri_sets, loc.tri_set_idx)
       IN  IF Len(args.am.frames) = 0
           THEN \* am.frames[0] at line 140, after line 139 made the mesh
                /\ meshes' = Append(meshes, NewMesh(subobj_name))
                /\ Raise("IndexError")
                /\ trace' = Step("mesh")
                /\ UNCHANGED <<objects, scene, loc>>
           ELSE LET pydata == _simplify_pydata(
                                  InitialVerts(args.am),
                                  [k \in DOMAIN tri_set |-> At0(args.am.tris, tri_set[k])])
                    mesh == Len(meshes) + 1
                    subobj == Len(objects) + 1
                IN  /\ meshes' = Append(meshes,
                                        [NewMesh(subobj_name) EXCEPT
                                            !.verts = pydata.verts,
                                            !.faces = pydata.faces])
                    /\ objects' = Append(objects, NewSubobj(subobj_name, mesh, loc.obj))
                    /\ scene' = Append(scene, subobj)
                    /\ loc' = [loc EXCEPT !.mesh = mesh, !.subobj = subobj,
                                          !.vert_map = pydata.vert_map]
                    /\ trace' = Step("mesh")
                    /\ pc' = "blocks"
                    /\ UNCHANGED result
    /\ UNCHANGED <<materials, images, args, ncalls, sp>>

\* a variant that accepts every frame type
AnyFrameTypeOk(frame) == TRUE

\* line 155: the frame type a non-static model needs
NonStaticFrameTypeOk(frame) == frame.frame_type = "SINGLE"

\* a variant that only refuses an empty frames argument
StaticFrameCountAtLeastOne(frames) == Len(frames) >= 1

\* line 160: the frame count a static model needs
StaticFrameCountOk(frames) == Len(frames) = 1

\* line 163: the frame type a static model needs
StaticFrameTypeOk(group_frame) == group_frame.frame_type = "GROUP"

\* a variant that truncates instead of rounding up
NumLoopsFloor(final_time, T) == final_time \div T

\* line 169: int(np.ceil(final_time / group_frame.times[-1]))
NumLoops(final_time, T) == CeilDiv(final_time, T)

\* a variant that skips a frame that is not SINGLE instead of raising
RECURSIVE CreateBlocksNonStaticSkip(_, _, _, _, _)
CreateBlocksNonStaticSkip(keys, blocks, frames, vert_map, i) ==
    IF i > Len(frames) THEN [keys |-> keys, blocks |-> blocks, exc |-> ""]
    ELSE IF frames[i].frame_type # "SINGLE"
         THEN CreateBlocksNonStaticSkip(keys, blocks, frames, vert_map, i + 1)
         ELSE LET k == _create_block(keys, frames[i].name, vert_map)
              IN  CreateBlocksNonStaticSkip(
                      k,
                      [n \in (DOMAIN blocks) \cup {i - 1} |->
                          IF n = i - 1 THEN Len(k) ELSE blocks[n]],
                      frames, vert_map, i + 1)

\* a variant that removes the blocks it made before it raises
RECURSIVE CreateBlocksNonStaticRollback(_, _, _, _, _)
CreateBlocksNonStaticRollback(keys, blocks, frames, vert_map, i) ==
    IF i > Len(frames) THEN [keys |-> keys, blocks |-> blocks, exc |-> ""]
    ELSE IF frames[i].frame_type # "SINGLE"
         THEN [keys |-> <<>>, blocks |-> <<>>, exc |-> "Exception"]
         ELSE LET k == _create_block(keys, frames[i].name, vert_map)
              IN  CreateBlocksNonStaticRollback(
                      k,
                      [n \in (DOMAIN blocks) \cup {i - 1} |->
                          IF n = i - 1 THEN Len(k) ELSE blocks[n]],
                      frames, vert_map, i + 1)

\* lines 154-157: blocks for am.frames until a frame that is not SINGLE
RECURSIVE CreateBlocksNonStatic(_, _, _, _, _)
CreateBlocksNonStatic(keys, blocks, frames, vert_map, i) ==
    IF i > Len(frames) THEN [keys |-> keys, blocks |-> blocks, exc |-> ""]
    ELSE IF ~NonStaticFrameTypeOk(frames[i])
         THEN [keys |-> keys, blocks |-> blocks, exc |-> "Exception"]
         ELSE LET k == _create_block(keys, frames[i].name, vert_map)
              IN  CreateBlocksNonStatic(
                      k,
                      [n \in (DOMAIN blocks) \cup {i - 1} |->
                          IF n = i - 1 THEN Len(k) ELSE blocks[n]],
                      frames, vert_map, i + 1)

\* lines 165-166: one block per sub-frame of the group frame
RECURSIVE CreateBlocksStatic(_, _, _, _, _)
CreateBlocksStatic(keys, blocks, simple_frames, vert_map, i) ==
    IF i > Len(simple_frames) THEN [keys |-> keys, blocks |-> blocks, exc |-> ""]
    ELSE LET k == _create_block(keys, simple_frames[i], vert_map)
         IN  CreateBlocksStatic(
                 k,
                 [n \in (DOMAIN blocks) \cup {i - 1} |->
                     IF n = i - 1 THEN Len(k) ELSE blocks[n]],
                 simple_frames, vert_map, i + 1)

\* lines 151-178: what the shape-key part leaves behind: the object's keys, the
\* blocks dictionary, whether blocks was bound, the schedule handed to _animate
\* (handed = FALSE if _animate was not reached) and the exception raised
ShapeKeys(a, keys, vert_map) ==
    LET none == [keys |-> keys, blocks |-> <<>>, handed |-> FALSE, frames |-> <<>>,
                 exc |-> ""]
    IN
    IF ~a.static
    THEN LET c == CreateBlocksNonStatic(keys, <<>>, a.am.frames, vert_map, 1)
         IN  IF c.exc # ""
             THEN [none EXCEPT !.keys = c.keys, !.blocks = c.blocks, !.exc = c.exc]
             ELSE LET r == _animate(c.keys, c.blocks, a.frames, a.fps)
                  IN  [keys |-> r.keys, blocks |-> c.blocks, handed |-> TRUE,
                       frames |-> a.frames, exc |-> r.exc]
    ELSE IF ~StaticFrameCountOk(a.frames) THEN [none EXCEPT !.exc = "Exception"]
    ELSE IF ~PyIndexOk(a.am.frames, a.frames[1][2]) THEN [none EXCEPT !.exc = "IndexError"]
    ELSE LET group_frame == PyIndex(a.am.frames, a.frames[1][2])
         IN  IF ~StaticFrameTypeOk(group_frame) THEN [none EXCEPT !.exc = "Exception"]
             ELSE
             LET c == CreateBlocksStatic(keys, <<>>, group_frame.frames, vert_map, 1)
                 made == [none EXCEPT !.keys = c.keys, !.blocks = c.blocks]
                 T == group_frame.times[Len(group_frame.times)]
             IN  \* final_time / 0 is inf or nan, which int() refuses
                 IF T = 0
                 THEN [made EXCEPT !.exc = IF a.final_time = 0 THEN "ValueError"
                                           ELSE "OverflowError"]
                 ELSE
                 LET num_loops == NumLoops(a.final_time, T)
                 IN  \* np.empty of a negative dimension
                     IF num_loops < 0 THEN [made EXCEPT !.exc = "ValueError"]
                     ELSE
                     LET loop_frames == LoopFrames(group_frame.times, num_loops)
                         r == _animate(c.keys, c.blocks, loop_frames, a.fps)
                     IN  [keys |-> r.keys, blocks |-> c.blocks, handed |-> TRUE,
                          frames |-> loop_frames, exc |-> r.exc]

\* lines 151-178 for the current triangle group
BuildBlocks ==
    /\ pc = "blocks"
    /\ LET r == ShapeKeys(args, objects[loc.subobj].keys, loc.vert_map)
       IN  /\ objects' = [objects EXCEPT ![loc.subobj].keys = r.keys]
           /\ loc' = [loc EXCEPT !.blocks_bound = TRUE, !.blocks = r.blocks]
           /\ trace' = [Step("blocks") EXCEPT
                           !.animate = IF r.handed
                                       THEN Append(@, [tri_set_idx |-> loc.tri_set_idx,
                                                       frames |-> r.frames])
                                       ELSE @]
           /\ IF r.exc # "" THEN Raise(r.exc)
              ELSE pc' = "material" /\ UNCHANGED result
    /\ UNCHANGED <<meshes, materials, images, scene, args, ncalls, sp>>

\* lines 182-185
MatName(a, tri_set_idx) ==
    LET mat_name == a.mdl_name \o "_skin" \o ToString(a.skin_idx)
    IN  IF a.sample_as_light
        THEN mat_name \o "_" \o a.obj_name \o "_triset" \o ToString(tri_set_idx)
                      \o "_fullbright"
        ELSE mat_name

\* mat_name in bpy.data.materials
InMaterials(mats, mat_name) == \E m \in DOMAIN mats : mats[m].name = mat_name

\* bpy.data.materials[mat_name]
MaterialNamed(mats, mat_name) == CHOOSE m \in DOMAIN mats :
    mats[m].name = mat_name /\ \A k \in 1..(m - 1) : mats[k].name # mat_name

\* blendmat.new_mat: a new material of that name in bpy.data.materials
new_mat(mats, mat_name) ==
    Append(mats, [name |-> mat_name, sample_as_light |-> FALSE, setup |-> "none"])

\* a variant that makes a material for every triangle group
AlwaysNewMat(mats, mat_name) == TRUE

\* line 187: whether the material has to be made
NeedsNewMat(mats, mat_name) == ~InMaterials(mats, mat_name)

\* lines 180-207: the material of the current triangle group
BuildMaterial ==
    /\ pc = "material"
    /\ LET mat_name == MatName(args, loc.tri_set_idx)
           create == NeedsNewMat(materials, mat_name)
           made == new_mat(materials, mat_name)
           new == Len(made)
           fullbright == At0(args.am.skins, args.skin_idx)
           log(created, mat) ==
               [Step("material") EXCEPT
                   !.mats = Append(@, [call |-> ncalls, tri_set_idx |-> loc.tri_set_idx,
                                       mdl_name |-> args.mdl_name,
                                       skin_idx |-> args.skin_idx,
                                       sample_as_light |-> args.sample_as_light,
                                       existed |-> InMaterials(materials, mat_name),
                                       created |-> created, mesh |-> loc.mesh,
                                       mat |-> mat])]
       IN  IF create /\ ~PyIndexOk(args.am.skins, args.skin_idx)
           THEN \* am.skins[skin_idx] at line 191, after line 188 made the material
                /\ materials' = made
                /\ Raise("IndexError")
                /\ trace' = log(TRUE, 0)
                /\ UNCHANGED <<images, meshes, loc>>
           ELSE LET mats == IF create
                            THEN [made EXCEPT
                                     ![new].setup = IF fullbright THEN "fullbright"
                                                    ELSE "diffuse",
                                     ![new].sample_as_light = args.sample_as_light]
                            ELSE materials
                    mat == MaterialNamed(mats, mat_name)
                IN  /\ materials' = mats
                    /\ images' = IF ~create THEN images
                                 ELSE IF fullbright
                                      THEN images \o <<mat_name, mat_name \o "_fullbright">>
                                      ELSE Append(images, mat_name)
                    /\ loc' = [loc EXCEPT !.sample_as_light_mats =
                                   IF create /\ args.sample_as_light
                                   THEN @ \cup {new} ELSE @]
                    /\ meshes' = [meshes EXCEPT ![loc.mesh].materials = Append(@, mat)]
                    /\ trace' = log(create, mat)
                    /\ pc' = "uvs"
                    /\ UNCHANGED result
    /\ UNCHANGED <<objects, scene, args, ncalls, sp>>

\* _set_uvs: a uv layer, and for the k-th face the texture coordinates of the
\* k-th triangle of the group (symbolic per triangle and corner)
_set_uvs(mesh, tri_set) ==
    [mesh EXCEPT
        !.uv_layers = @ + 1,
        !.uvs = [k \in 1..(IF Len(mesh.faces) < Len(tri_set) THEN Len(mesh.faces)
                           ELSE Len(tri_set)) |->
                    [j \in 1..3 |-> <<tri_set[k], j - 1>>]]]

\* line 208, and the step of the loop to the next triangle group
SetUVs ==
    /\ pc = "uvs"
    /\ meshes' = [meshes EXCEPT ![loc.mesh] =
                     _set_uvs(@, At0(args.am.disjoint_tri_sets, loc.tri_set_idx))]
    /\ loc' = [loc EXCEPT !.tri_set_idx = @ + 1]
    /\ trace' = Step("uvs")
    /\ pc' = "loop"
    /\ UNCHANGED <<objects, materials, images, scene, args, result, ncalls, sp>>

\* line 210: blocks is unbound if the loop body never ran
Return ==
    /\ pc = "loop"
    /\ loc.tri_set_idx = Len(args.am.disjoint_tri_sets)
    /\ IF loc.blocks_bound
       THEN pc' = "done" /\ result' = [kind |-> "returned", exc |-> ""]
       ELSE Raise("UnboundLocalError")
    /\ UNCHANGED <<hostVars, args, loc, ncalls, trace, sp>>

Steps == BuildMesh \/ BuildBlocks \/ BuildMaterial \/ SetUVs \/ Return

-----------------------------------------------------------------------------
(* The alias models and arguments the calls are drawn from. *)

SeqsUpTo(S, n) == UNION {[1..k -> S] : k \in 0..n}

FrameName(i) == "frame" \o ToString(i)
SubFrameName(i, j) == "group" \o ToString(i) \o "_" \o ToString(j)

\* mdl.Frame of type SINGLE at position i of am.frames
SingleFrame(i) == [frame_type |-> "SINGLE", name |-> FrameName(i), frames |-> <<>>,
                   times |-> <<>>]

\* mdl.Frame of type GROUP at position i with one sub-frame per time
GroupFrame(i, times) ==
    [frame_type |-> "GROUP", name |-> "",
     frames |-> [j \in DOMAIN times |-> SubFrameName(i, j - 1)],
     times |-> times]

\* kinds[i] = 0: a SINGLE frame; kinds[i] = k > 0: a GROUP frame of k sub-frames
\* ending at ticks 1..k
AmFrames(kinds) ==
    [i \in DOMAIN kinds |->
        IF kinds[i] = 0 THEN SingleFrame(i - 1)
        ELSE GroupFrame(i - 1, [j \in 1..kinds[i] |-> j])]

\* An alias model of c disjoint triangle groups: group s has the vertices
\* 4s..4s+3 and two triangles that share an edge.  Skin 0 has no fullbright
\* pixels, skin 1 has some.
AliasMdl(frames, c) ==
    [frames |-> frames,
     num_verts |-> 4 * c,
     tris |-> [t \in 1..(2 * c) |->
                  LET b == 4 * ((t - 1) \div 2)
                  IN  IF (t - 1) % 2 = 0 THEN <<b + 3, b + 1, b>>
                      ELSE <<b + 1, b + 2, b + 3>>],
     disjoint_tri_sets |-> [s \in 1..c |-> <<2 * (s - 1) + 1, 2 * (s - 1)>>],
     skins |-> <<FALSE, TRUE>>]

BaseArgs == [NoArgs EXCEPT !.mdl_name = "m", !.obj_name = "o"]

\* one call on an empty scene: every shape of am.frames, every number of
\* triangle groups, both modes, every short schedule of frame numbers
ArgsPipeline ==
    {[BaseArgs EXCEPT !.am = AliasMdl(AmFrames(kinds), c), !.static = st,
                      !.frames = [i \in DOMAIN fns |-> <<(i - 1) * TimeDen, fns[i]>>],
                      !.final_time = MaxFinalTime] :
        kinds \in SeqsUpTo(0..MaxSubFrames, MaxFrames), c \in 0..MaxTriSets,
        st \in BOOLEAN, fns \in SeqsUpTo(-1..MaxFrames, MaxSched)}

MdlNames == {"a", "a_skin1"}
SkinIdxs == {0, 1, 2}

\* repeated calls that differ in what names the material
ArgsMaterial ==
    {[BaseArgs EXCEPT !.am = AliasMdl(AmFrames(<<0>>), c), !.mdl_name = m,
                      !.skin_idx = k, !.sample_as_light = sal] :
        c \in 1..MaxTriSets, m \in MdlNames, k \in SkinIdxs, sal \in BOOLEAN}

Fps == {1, DefaultFps}

\* one animated call: two SINGLE frames, every schedule of times and frame
\* numbers, 2 being a frame number the model does not have
ArgsAnimate ==
    {[BaseArgs EXCEPT !.am = AliasMdl(AmFrames(<<0, 0>>), 1), !.frames = fr,
                      !.fps = fps] :
        fr \in SeqsUpTo((0..MaxTime) \X {0, 1, 2}, MaxAnimSched), fps \in Fps}

\* one static call on a group frame of any sub-frame times
ArgsLoop ==
    {[BaseArgs EXCEPT !.am = AliasMdl(<<GroupFrame(0, times)>>, 1), !.static = TRUE,
                      !.frames = <<<<0, 0>>>>, !.final_time = ft] :
        times \in SeqsUpTo(0..MaxTime, MaxLoopSubFrames) \ {<<>>},
        ft \in 0..MaxFinalTime}

NoSp == [verts |-> <<>>, tris |-> <<>>, called |-> FALSE, pydata |-> <<>>,
         vert_map |-> <<>>]

Init ==
    /\ objects = <<>>
    /\ meshes = <<>>
    /\ materials = <<>>
    /\ images = <<>>
    /\ scene = <<>>
    /\ pc = "idle"
    /\ args = NoArgs
    /\ loc = NoLoc
    /\ result = [kind |-> "none", exc |-> ""]
    /\ ncalls = 0
    /\ trace = NoTrace
    /\ sp = NoSp

CallPipeline == ncalls = 0 /\ \E a \in ArgsPipeline : Call(a)
CallMaterial == \E a \in ArgsMaterial : Call(a)
CallAnimate == ncalls = 0 /\ \E a \in ArgsAnimate : Call(a)
CallLoop == ncalls = 0 /\ \E a \in ArgsLoop : Call(a)

Next == CallPipeline \/ Steps
Spec == Init /\ [][Next]_vars

NextMaterial == CallMaterial \/ Steps
SpecMaterial == Init /\ [][NextMaterial]_vars

NextAnim == CallAnimate \/ CallLoop \/ Steps
SpecAnim == Init /\ [][NextAnim]_vars

-----------------------------------------------------------------------------
(* _simplify_pydata on its own: every short triangle list over MaxVerts      *)
(* vertices, vertices 2i and 2i+1 sharing a coordinate.                      *)

InitSimplify ==
    /\ objects = <<>> /\ meshes = <<>> /\ materials = <<>> /\ images = <<>>
    /\ scene = <<>> /\ pc = "idle" /\ args = NoArgs /\ loc = NoLoc
    /\ result = [kind |-> "none", exc |-> ""] /\ ncalls = 0 /\ trace = NoTrace
    /\ \E tris \in SeqsUpTo((0..(MaxVerts - 1)) \X (0..(MaxVerts - 1)) \X (0..(MaxVerts - 1)),
                            MaxTris) :
          sp = [NoSp EXCEPT !.verts = [v \in 1..MaxVerts |-> (v - 1) \div 2],
                            !.tris = tris]

Simplify ==
    /\ ~sp.called
    /\ LET r == _simplify_pydata(sp.verts, sp.tris)
       IN  sp' = [sp EXCEPT !.called = TRUE,
                            !.pydata = <<r.verts, r.edges, r.faces>>,
                            !.vert_map = r.vert_map]
    /\ UNCHANGED <<hostVars, callVars>>

NextSimplify == Simplify
SpecSimplify == InitSimplify /\ [][NextSimplify]_vars

-----------------------------------------------------------------------------
(* Properties. *)

RECURSIVE Flatten(_)
Flatten(ss) == IF ss = <<>> THEN <<>> ELSE Head(ss) \o Flatten(Tail(ss))

\* the 1-based position at which v first occurs in s
FirstPos(s, v) == CHOOSE i \in DOMAIN s : s[i] = v /\ \A j \in 1..(i - 1) : s[j] # v

(* C8: _simplify_pydata re-indexes losslessly.  vert_map holds exactly the    *)
(* vertex indices the triangles use, each once, in order of first use; the  *)
(* new triangle list has the length and order of the input and              *)
(* vert_map[new_tris[i][j]] = tris[i][j] at every corner; the new vertex    *)
(* list is verts[vert_map[k]]; every new index is in 0..len(vert_map)-1.    *)
C8_SimplifyLossless ==
    sp.called =>
        LET vm == sp.vert_map
            new_verts == sp.pydata[1]
            new_tris == sp.pydata[3]
            corners == Flatten(sp.tris)
        IN  /\ Range(vm) = Range(corners)
            /\ \A k, l \in DOMAIN vm :
                  k < l => /\ vm[k] # vm[l]
                           /\ FirstPos(corners, vm[k]) < FirstPos(corners, vm[l])
            /\ Len(new_tris) = Len(sp.tris)
            /\ \A i \in DOMAIN new_tris :
                  /\ Len(new_tris[i]) = Len(sp.tris[i])
                  /\ \A j \in DOMAIN new_tris[i] :
                        /\ new_tris[i][j] \in 0..(Len(vm) - 1)
                        /\ vm[new_tris[i][j] + 1] = sp.tris[i][j]
            /\ Len(new_verts) = Len(vm)
            /\ \A k \in DOMAIN vm : new_verts[k] = sp.verts[vm[k] + 1]
            /\ sp.pydata[2] = <<>>

\* two triangles that share vertices, one with a repeated corner, first used
\* in an order that is not the order of the indices
C8_Witness ==
    /\ sp.called
    /\ sp.tris = <<<<2, 0, 0>>, <<0, 1, 2>>>>
    /\ sp.vert_map = <<2, 0, 1>>
    /\ sp.pydata[3] = <<<<0, 1, 1>>, <<1, 2, 0>>>>
    /\ sp.pydata[1] = <<1, 0, 0>>

-----------------------------------------------------------------------------
(* The last _animate call of the running add_model call. *)

\* _animate was called for the current triangle group and returned
AnimateReturned ==
    /\ pc \in {"material", "uvs", "loop", "done"}
    /\ result.kind # "raised"
    /\ trace.animate # <<>>

Schedule == trace.animate[Len(trace.animate)].frames
SubobjKeys == objects[loc.subobj].keys
EntryBlock(i) == loc.blocks[Schedule[i][2]]
EntryFrame(i) == HostFrame(args.fps, Schedule[i][1])

\* block b has a keyframe at host frame f
HasKeyframe(b, f) == f \in DOMAIN SubobjKeys[b].kf
\* block b has a keyframe of value v at host frame f
HasKeyframeOf(b, f, v) == HasKeyframe(b, f) /\ SubobjKeys[b].kf[f].value = v

\* no two entries fall on one host frame, no two consecutive entries name one block
CleanSchedule ==
    /\ \A i, j \in DOMAIN Schedule : i # j => EntryFrame(i) # EntryFrame(j)
    /\ \A i \in DOMAIN Schedule : i > 1 => Schedule[i][2] # Schedule[i - 1][2]

(* C9 as stated: for every schedule passed to _animate, once it has          *)
(* returned, the block of each entry has value 1.0 at the entry's host      *)
(* frame, the block of the preceding entry has value 0.0 at that host frame *)
(* and the entry's block has value 0.0 at the preceding entry's host frame. *)
C9_CrossFadeEverySchedule ==
    AnimateReturned =>
        \A i \in DOMAIN Schedule :
            /\ HasKeyframeOf(EntryBlock(i), EntryFrame(i), 1)
            /\ i > 1 => /\ HasKeyframeOf(EntryBlock(i - 1), EntryFrame(i), 0)
                        /\ HasKeyframeOf(EntryBlock(i), EntryFrame(i - 1), 0)

(* C9 amended: for every schedule passed to _animate, once it has returned, *)
(* a keyframe exists at each of these three places; they have the values    *)
(* 1.0, 0.0 and 0.0 if no two entries of the schedule fall on the same host *)
(* frame and no two consecutive entries name the same block.                *)
C9_CrossFade ==
    AnimateReturned =>
        \A i \in DOMAIN Schedule :
            /\ HasKeyframe(EntryBlock(i), EntryFrame(i))
            /\ i > 1 => /\ HasKeyframe(EntryBlock(i - 1), EntryFrame(i))
                        /\ HasKeyframe(EntryBlock(i), EntryFrame(i - 1))
            /\ CleanSchedule =>
                  /\ HasKeyframeOf(EntryBlock(i), EntryFrame(i), 1)
                  /\ i > 1 => /\ HasKeyframeOf(EntryBlock(i - 1), EntryFrame(i), 0)
                              /\ HasKeyframeOf(EntryBlock(i), EntryFrame(i - 1), 0)

\* a returned _animate call on three entries that go from frame 0 to frame 1
\* and back, at fps 1 with times that round to different host frames
C9_Witness ==
    /\ AnimateReturned
    /\ ~args.static
    /\ args.fps = 1
    /\ Len(Schedule) = 3
    /\ <<Schedule[1][2], Schedule[2][2], Schedule[3][2]>> = <<0, 1, 0>>
    /\ <<Schedule[1][1], Schedule[2][1], Schedule[3][1]>> = <<1, 2, 3>>
    /\ CleanSchedule
    /\ SubobjKeys[1].kf[2].value = 1

-----------------------------------------------------------------------------
(* The looping schedule of a static model. *)

GroupFrameOf(a) == PyIndex(a.am.frames, a.frames[1][2])

LoopHanded == args.static /\ AnimateReturned

\* the schedule has m * n entries, m the least number of loops that covers
\* final_time, and entry k*n + i is block i at time k*T (i = 0) or k*T + t[i-1]
LoopShape ==
    LET t == GroupFrameOf(args).times
        n == Len(t)
        T == t[n]
    IN  \E m \in 0..args.final_time :
            /\ m * T >= args.final_time
            /\ m > 0 => (m - 1) * T < args.final_time
            /\ Len(Schedule) = m * n
            /\ \A k \in 0..(m - 1) : \A i \in 0..(n - 1) :
                  Schedule[k * n + i + 1] =
                      <<(IF i = 0 THEN k * T ELSE k * T + t[i]), i>>
            /\ args.final_time > 0 =>
                  \E b \in DOMAIN SubobjKeys : DOMAIN SubobjKeys[b].kf # {}

LoopTimesNonDecreasing ==
    \A j \in DOMAIN Schedule : j > 1 => Schedule[j - 1][1] <= Schedule[j][1]

GroupTimesNonDecreasing ==
    LET t == GroupFrameOf(args).times
    IN  \A j \in DOMAIN t : j > 1 => t[j - 1] <= t[j]

(* C7 as stated: in static mode the schedule handed to _animate has          *)
(* num_loops * n entries, num_loops = ceil(final_time / T); entry k*n + i   *)
(* is block i at time k*T (i = 0) or k*T + t[i-1]; the times are            *)
(* non-decreasing; num_loops * T >= final_time and a keyframe is inserted   *)
(* whenever final_time > 0.                                                 *)
C7_LoopScheduleAnyTimes == LoopHanded => LoopShape /\ LoopTimesNonDecreasing

(* C7 amended: as stated, for group times t >= 0 with T > 0, except that    *)
(* the times of the schedule are non-decreasing if the group times t are    *)
(* non-decreasing.                                                          *)
C7_LoopSchedule ==
    LoopHanded => /\ LoopShape
                  /\ GroupTimesNonDecreasing => LoopTimesNonDecreasing

\* three sub-frames ending at ticks 1, 2, 3 and a final time of 4: two loops
C7_Witness ==
    /\ LoopHanded
    /\ GroupFrameOf(args).times = <<1, 2, 3>>
    /\ args.final_time = 4
    /\ Len(Schedule) = 6
    /\ Schedule[5] = <<4, 1>>

-----------------------------------------------------------------------------
(* One add_model call on an empty scene. *)

Started == pc # "idle"
Returned == pc = "done" /\ result.kind = "returned"
Raised == pc = "done" /\ result.kind = "raised"
NTriSets == Len(args.am.disjoint_tri_sets)
InScene(o) == \E i \in DOMAIN scene : scene[i] = o

\* the call never gets past the shape keys of the first triangle group and
\* ends, if it has ended, with an exception
NeverReturns ==
    /\ pc \notin {"material", "uvs"}
    /\ loc.tri_set_idx = 0
    /\ pc = "done" => result.kind = "raised"

(* C2: add_model raises on a frame type that is wrong for the mode.  With   *)
(* static=False and at least one triangle group it raises if any frame of   *)
(* am.frames is not SINGLE; with static=True and exactly one entry in       *)
(* frames it raises if am.frames[frame_num] is not GROUP.  Neither call     *)
(* returns a BlendMdl.                                                      *)
C2_WrongFrameTypeRaises ==
    Started =>
        /\ ( /\ ~args.static
             /\ NTriSets >= 1
             /\ \E i \in DOMAIN args.am.frames : args.am.frames[i].frame_type # "SINGLE" )
           => NeverReturns
        /\ ( /\ args.static
             /\ Len(args.frames) = 1
             /\ PyIndexOk(args.am.frames, args.frames[1][2])
             /\ GroupFrameOf(args).frame_type # "GROUP" )
           => NeverReturns

\* a non-static call on a SINGLE frame followed by a GROUP frame has raised
C2_Witness ==
    /\ Raised
    /\ result.exc = "Exception"
    /\ ~args.static
    /\ Len(args.am.frames) = 2
    /\ args.am.frames[1].frame_type = "SINGLE"
    /\ args.am.frames[2].frame_type = "GROUP"

(* C3: with static=True, add_model raises whenever frames does not hold     *)
(* exactly one entry, before any shape-key block is created and before any  *)
(* keyframe is inserted.                                                    *)
C3_StaticFrameCountRaises ==
    (Started /\ args.static /\ Len(args.frames) # 1) =>
        /\ NeverReturns
        /\ \A o \in DOMAIN objects : objects[o].keys = <<>>

\* a static call with two entries has raised on the frame count, its first
\* mesh object already made
C3_Witness ==
    /\ Raised
    /\ result.exc = "Exception"
    /\ args.static
    /\ Len(args.frames) = 2
    /\ args.am.frames # <<>>
    /\ args.am.frames[1].frame_type = "GROUP"
    /\ Len(objects) = 2

\* the simple frames a successful call makes blocks for, in order
BlockFrames(a) ==
    IF a.static THEN GroupFrameOf(a).frames
    ELSE [i \in DOMAIN a.am.frames |-> a.am.frames[i].name]

(* C4: one shape-key block per animation frame.  After a successful         *)
(* add_model every triangle group's mesh object has exactly one block per   *)
(* frame, in frame order and named after its frame; the blocks dictionary   *)
(* has the keys 0..n-1, key k being the k-th block made; n = len(am.frames) *)
(* when static=False and the number of sub-frames of the selected GROUP     *)
(* frame when static=True; every schedule handed to _animate only names     *)
(* keys of the dictionary.                                                  *)
C4_OneBlockPerFrame ==
    Returned =>
        LET names == BlockFrames(args)
            n == Len(names)
            subobjs == {o \in DOMAIN objects : objects[o].parent = loc.obj}
        IN  /\ Cardinality(subobjs) = NTriSets
            /\ \A o \in subobjs :
                  /\ Len(objects[o].keys) = n
                  /\ \A i \in 1..n : objects[o].keys[i].name = names[i]
            /\ DOMAIN loc.blocks = 0..(n - 1)
            /\ \A k \in 0..(n - 1) : loc.blocks[k] = k + 1
            /\ Len(trace.animate) = NTriSets
            /\ \A c \in DOMAIN trace.animate :
                  \A e \in DOMAIN trace.animate[c].frames :
                      trace.animate[c].frames[e][2] \in 0..(n - 1)

\* a non-static call on two SINGLE frames and two triangle groups with a
\* schedule of two entries has returned
C4_Witness ==
    /\ Returned
    /\ ~args.static
    /\ Len(args.am.frames) = 2
    /\ NTriSets = 2
    /\ Len(args.frames) = 2
    /\ Len(objects[3].keys) = 2

StepNames == <<"mesh", "blocks", "material", "uvs">>

(* C5: add_model is a linear pipeline over the triangle groups.  The steps  *)
(* of a call happen in the order mesh, shape keys, material, UVs for group  *)
(* 0, then the same for group 1, and so on; after a successful call there   *)
(* is one root object and one mesh object per triangle group, named         *)
(* "<obj_name>_triset<i>", parented to the root and linked to the scene.    *)
C5_LinearPipeline ==
    /\ \A p \in DOMAIN trace.steps :
          trace.steps[p] = <<StepNames[((p - 1) % 4) + 1], (p - 1) \div 4>>
    /\ Returned =>
          /\ Len(trace.steps) = 4 * NTriSets
          /\ Len(objects) = 1 + NTriSets
          /\ objects[1] = NewObject(args.obj_name, 0)
          /\ loc.obj = 1
          /\ scene = [o \in 1..(1 + NTriSets) |-> o]
          /\ Len(meshes) = NTriSets
          /\ \A i \in 0..(NTriSets - 1) :
                /\ objects[i + 2].name = args.obj_name \o "_triset" \o ToString(i)
                /\ objects[i + 2].parent = 1
                /\ objects[i + 2].data = i + 1
                /\ meshes[i + 1].name = objects[i + 2].name
                /\ Len(meshes[i + 1].faces) = Len(args.am.disjoint_tri_sets[i + 1])
                /\ Len(meshes[i + 1].materials) = 1
                /\ meshes[i + 1].uv_layers = 1
                /\ Len(meshes[i + 1].uvs) = Len(meshes[i + 1].faces)

\* a static call on a model of two triangle groups has returned
C5_Witness ==
    /\ Returned
    /\ args.static
    /\ NTriSets = 2
    /\ Len(trace.steps) = 8
    /\ objects[3].name = "o_triset1"

RECURSIVE LeadingSingles(_)
LeadingSingles(frames) ==
    IF frames = <<>> \/ Head(frames).frame_type # "SINGLE" THEN 0
    ELSE 1 + LeadingSingles(Tail(frames))

(* C6: the precondition checks have no recovery.  When add_model has raised *)
(* on a wrong frame type or a wrong static frame count, the root object and *)
(* the current group's mesh object are in the host tables and linked to the *)
(* scene, the mesh is there, the blocks added before the exception are on   *)
(* the mesh object, and what was built for earlier groups is there.         *)
C6_NoRecovery ==
    (Raised /\ result.exc = "Exception") =>
        /\ loc.obj \in DOMAIN objects
        /\ objects[loc.obj] = NewObject(args.obj_name, 0)
        /\ InScene(loc.obj)
        /\ loc.subobj \in DOMAIN objects
        /\ objects[loc.subobj].name = SubobjName(args.obj_name, loc.tri_set_idx)
        /\ objects[loc.subobj].parent = loc.obj
        /\ objects[loc.subobj].data = loc.mesh
        /\ InScene(loc.subobj)
        /\ loc.mesh \in DOMAIN meshes
        /\ Len(meshes[loc.mesh].faces) =
               Len(At0(args.am.disjoint_tri_sets, loc.tri_set_idx))
        /\ Len(objects[loc.subobj].keys) =
               (IF args.static THEN 0 ELSE LeadingSingles(args.am.frames))
        /\ \A i \in 1..Len(objects[loc.subobj].keys) :
               objects[loc.subobj].keys[i].name = args.am.frames[i].name
        /\ Len(objects) = 2 + loc.tri_set_idx
        /\ Len(meshes) = 1 + loc.tri_set_idx
        /\ \A i \in 0..(loc.tri_set_idx - 1) :
               /\ objects[i + 2].parent = loc.obj
               /\ Len(meshes[i + 1].materials) = 1
               /\ meshes[i + 1].uv_layers = 1

\* a non-static call has raised at its second frame, a GROUP frame, and the
\* block of its first frame is still on the mesh object
C6_Witness ==
    /\ Raised
    /\ result.exc = "Exception"
    /\ ~args.static
    /\ Len(args.am.frames) = 2
    /\ args.am.frames[2].frame_type = "GROUP"
    /\ Len(objects) = 2
    /\ Len(objects[2].keys) = 1
    /\ objects[2].keys[1].name = "frame0"
    /\ InScene(2)

-----------------------------------------------------------------------------
(* Repeated add_model calls. *)

\* the material name of a model that is not sampled as a light
SkinName(mdl_name, skin_idx) == mdl_name \o "_skin" \o ToString(skin_idx)

\* the material steps of models that are not sampled as a light
PlainSteps == {i \in DOMAIN trace.mats : ~trace.mats[i].sample_as_light}

(* C1: materials are shared by name across calls and triangle groups.  For  *)
(* a model that is not sampled as a light, add_model makes a material (and  *)
(* its images) only if no material named "<mdl_name>_skin<skin_idx>" is in  *)
(* the material table, and otherwise makes nothing and appends the material *)
(* of that name to the mesh; the table never holds two materials for one    *)
(* (mdl_name, skin_idx), and every mesh built for one (mdl_name, skin_idx)  *)
(* refers to the same material.                                             *)
C1_MaterialsSharedByName ==
    /\ \A i \in PlainSteps :
          LET e == trace.mats[i]
          IN  /\ e.created = ~e.existed
              /\ e.mat # 0 =>
                    /\ materials[e.mat].name = SkinName(e.mdl_name, e.skin_idx)
                    /\ meshes[e.mesh].materials = <<e.mat>>
    /\ \A i, j \in PlainSteps :
          ( /\ trace.mats[i].mdl_name = trace.mats[j].mdl_name
            /\ trace.mats[i].skin_idx = trace.mats[j].skin_idx
            /\ trace.mats[i].mat # 0
            /\ trace.mats[j].mat # 0 )
          => trace.mats[i].mat = trace.mats[j].mat
    /\ \A m \in MdlNames : \A k \in SkinIdxs :
          /\ Cardinality({x \in DOMAIN materials :
                             materials[x].name = SkinName(m, k)}) <= 1
          /\ Cardinality({x \in DOMAIN images : images[x] = SkinName(m, k)}) <= 1
          /\ \A m2 \in MdlNames : \A k2 \in SkinIdxs :
                SkinName(m, k) = SkinName(m2, k2) => m = m2 /\ k = k2
    /\ Len(materials) = Cardinality({i \in DOMAIN trace.mats : trace.mats[i].created})

\* the second call finds the material the first call made for the same model
\* and skin, and both calls' meshes refer to it
C1_Witness ==
    /\ Returned
    /\ ncalls = 2
    /\ \E i, j \in PlainSteps :
          /\ trace.mats[i].call = 1
          /\ trace.mats[j].call = 2
          /\ trace.mats[i].mdl_name = trace.mats[j].mdl_name
          /\ trace.mats[i].skin_idx = trace.mats[j].skin_idx
          /\ trace.mats[i].created
          /\ ~trace.mats[j].created
          /\ trace.mats[j].existed
          /\ trace.mats[i].mat = trace.mats[j].mat
          /\ trace.mats[i].mesh # trace.mats[j].mesh
          /\ meshes[trace.mats[j].mesh].materials = <<trace.mats[i].mat>>

=============================================================================
